---- MODULE Spec2Model ----
(***************************************************************************)
(* Cohesity Helios integration for Cortex XSOAR (CohesityHelios.py).       *)
(*                                                                         *)
(* The model follows main(): one invocation is one command of the          *)
(* integration, run by a process p from its first statement to             *)
(* return_results / return_error.  Every outbound call (the GET of the     *)
(* alerts, the PATCH that suppresses or resolves, the POST that restores,  *)
(* setLastRun, incidents) is one step; the statements between two calls    *)
(* belong to the step of the call that precedes them.                      *)
(*                                                                         *)
(* The Helios service and the XSOAR host are the environment.  The service *)
(* answers a GET with the alerts it holds or with a failure, whatever the  *)
(* filters of the request; it applies a PATCH it answers with 200 and      *)
(* leaves its alerts alone when the call fails.  An alert carries the      *)
(* fields the commands read (id, alertCode, severity, alertState,          *)
(* propertyList, alertDocument, latestTimestampUsecs); an alert of the     *)
(* service may lack alertDocument, one of its entries, the timestamp or    *)
(* the 'object' property.                                                  *)
(*                                                                         *)
(* The host gives each invocation its parameters (demisto.params()) and    *)
(* runs it in a local time zone: datetime.now() is a naive local datetime, *)
(* and .timestamp() converts it back with the zone's rules.                *)
(***************************************************************************)
EXTENDS Integers, Sequences, FiniteSets, TLC

VARIABLES
    tz,                  \* the local time zone of the host
    params,              \* demisto.params() of each invocation
    clock,               \* the instant, epoch milliseconds
    lastRun,             \* the host's stored last-run dict (demisto.getLastRun)
    svcAlerts,           \* the alerts held by the Helios service, in response order
    pc,                  \* position of each invocation
    command,             \* demisto.command() of each invocation
    args,                \* demisto.args() of each invocation
    last_run,            \* fetch_incidents_command: last_run
    start_time_millis,   \* window start of the running command (<<>> is None)
    end_time_millis,     \* window end of the running command (<<>> is None)
    request_params,      \* Client.get_ransomware_alerts: request_params of the GET sent
    http_resp,           \* Client.get_ransomware_alerts: resp, the raw service answer
    ransomware_resp,     \* the list returned by Client.get_ransomware_alerts
    alert_id,            \* ignore / restore: alert_id
    restore_properties,  \* restore_latest_clean_snapshot: restore_properties
    request_payload,     \* restore_latest_clean_snapshot: <<cluster_id, request_payload>> or <<>>
    incidents,           \* fetch_incidents_command: incidents
    log,                 \* the outbound calls of the invocation, in order
    exc,                 \* the exception travelling to main's handler (<<>> is none)
    raised,              \* every exception raised inside the command so far
    ret,                 \* the value the command function returns (<<>> is none yet)
    result,              \* what the invocation reported to the host (<<>> is nothing yet)
    entryClock,          \* the clock when the invocation started
    fetchSaw,            \* the processes that had issued a state-changing call when p's GET returned
    prevCycle            \* the fetch-incidents cycle that ended last

vars == << tz, params, clock, lastRun, svcAlerts, pc, command, args, last_run, start_time_millis,
           end_time_millis, request_params, http_resp, ransomware_resp, alert_id,
           restore_properties, request_payload, incidents, log, exc, raised, ret, result,
           entryClock, fetchSaw, prevCycle >>

(***************************************************************************)
(* Bounds of the model.                                                    *)
(***************************************************************************)
MaxAlerts == 2          \* longest alert list the service holds (one invocation)
MaxCycleAlerts == 1     \* longest alert list the service holds (fetch cycles)
MaxConcAlerts == 1      \* longest alert list the service holds (two invocations)
MaxTicks == 2           \* clock ticks (1 ms each) over the fetch cycles
MaxRunTicks == 1        \* clock ticks (1 ms each) within one invocation

(***************************************************************************)
(* Program constants.                                                      *)
(***************************************************************************)
\* Times are epoch milliseconds counted from 1631471400000 (2021-09-12T18:30:00Z,
\* the start_time_millis of test_module's fetch): the code only copies, compares,
\* adds and subtracts times, and the integers of the model are 32 bits wide.
MAX_FETCH_DEFAULT == 20
TEST_START_MILLIS == 0
RANSOMWARE_CODE == "CE01516011"

Procs == {1, 2}
None == <<>>
Some(v) == <<v>>

Commands == { "test-module",
              "cohesity-helios-get-ransomware-alerts",
              "cohesity-helios-ignore-anomalous-object",
              "cohesity-helios-restore-latest-clean-snapshot",
              "fetch-incidents" }

\* A command name main() has no branch for.
OtherCommands == { "cohesity-helios-unknown" }

\* The object names an operator gives: three names and the empty name.
ObjectNames == {"vm-a", "vm-b", "vm-c", ""}

(***************************************************************************)
(* Alerts of the service.                                                  *)
(***************************************************************************)
Prop(k, v) == [key |-> k, value |-> v]

JobProps(obj, job) ==
    << Prop("object", obj), Prop("jobId", job), Prop("jobInstanceId", "21"),
       Prop("jobStartTimeUsecs", "31"), Prop("entityId", "41"), Prop("cid", "c1") >>

AlertDocument ==
    [alertName |-> "Anomaly detected", alertDescription |-> "Anomalous change rate",
     alertCause |-> "Possible ransomware"]

\* latestTimestampUsecs counts from the same instant as the clock.
Alert(i, code, sev, st, props) ==
    [id |-> i, alertCode |-> code, severity |-> sev, alertState |-> st,
     propertyList |-> props, alertDocument |-> AlertDocument,
     latestTimestampUsecs |-> 2500000]

\* The dict d with key k absent.
Without(d, k) == [x \in DOMAIN d \ {k} |-> d[x]]

AlertUniverse ==
    { Alert("a1", RANSOMWARE_CODE, "kWarning",  "kOpen",
            << Prop("object", "vm-b") >> \o JobProps("vm-a", "11")),
      Alert("a2", RANSOMWARE_CODE, "kCritical", "kOpen",       JobProps("vm-b", "12")),
      Alert("a3", RANSOMWARE_CODE, "kCritical", "kOpen",       JobProps("vm-b", "13")),
      Alert("a4", "CE00000000",    "kCritical", "kOpen",       JobProps("vm-b", "14")),
      Alert("a5", RANSOMWARE_CODE, "kCritical", "kSuppressed", JobProps("vm-b", "15")),
      [ Alert("a6", RANSOMWARE_CODE, "kCritical", "kOpen",
              << Prop("object", "vm-b"), Prop("jobId", "n/a") >>)
          EXCEPT !.alertDocument = Without(AlertDocument, "alertName") ],
      Without(Without(Alert("a7", RANSOMWARE_CODE, "kInfo", "kOpen",
                            << Prop("environment", "kVMware") >>),
                      "alertDocument"), "latestTimestampUsecs"),
      Alert("a8", RANSOMWARE_CODE, "kCritical", "kOpen", << Prop("jobId", "18") >>) }

\* Sequences of distinct alerts (an alert id identifies one alert).
AlertLists ==
    { s \in UNION { [1..n -> AlertUniverse] : n \in 0..MaxAlerts } :
        \A i, j \in 1..Len(s) : i # j => s[i].id # s[j].id }

(***************************************************************************)
(* Helper functions.                                                       *)
(***************************************************************************)

\* dict.get(key, default)
Get(d, k, default) == IF k \in DOMAIN d THEN d[k] ELSE default

EmptyDict == [k \in {} |-> ""]

\* _get_property_dict: the loop over property_list, a later key overwriting
\* an earlier one.
RECURSIVE PropertyDictLoop(_, _, _)
PropertyDictLoop(property_list, i, property_dict) ==
    IF i > Len(property_list) THEN property_dict
    ELSE PropertyDictLoop(property_list, i + 1,
            [k \in DOMAIN property_dict \cup {property_list[i].key} |->
                IF k = property_list[i].key THEN property_list[i].value
                ELSE property_dict[k]])

_get_property_dict(property_list) == PropertyDictLoop(property_list, 1, EmptyDict)

\* int(s) of a property value: the decimal strings of the model, anything
\* else raises ValueError (<<>>).
IntTable == ("11" :> 11) @@ ("12" :> 12) @@ ("13" :> 13) @@ ("14" :> 14) @@
            ("15" :> 15) @@ ("18" :> 18) @@ ("21" :> 21) @@ ("31" :> 31) @@ ("41" :> 41)

IntOf(s) == IF s \in DOMAIN IntTable THEN Some(IntTable[s]) ELSE None

\* dateparser.parse + int(dt.timestamp()) * 1000; '' and unparsable text give None.
DateTable == ("2021-09-12T18:30:00Z" :> TEST_START_MILLIS)

datestring_to_millis(ds) == IF ds \in DOMAIN DateTable THEN Some(DateTable[ds]) ELSE None

\* convert_to_demisto_severity_int (IncidentSeverity members by name).
convert_to_demisto_severity_int(severity) ==
    CASE severity = "kInfo"     -> "INFO"
      [] severity = "kWarning"  -> "LOW"
      [] severity = "kCritical" -> "HIGH"
      [] OTHER                  -> "UNKNOWN"

(***************************************************************************)
(* Local time: datetime.now(), timedelta arithmetic and .timestamp().      *)
(***************************************************************************)
HourMillis == 60 * 60 * 1000
DayMillis == 24 * HourMillis

\* timedelta(days=7)
SevenDaysMillis == 7 * DayMillis

\* max_fold_seconds of the datetime module.
MaxFoldMillis == 24 * HourMillis

\* A zone: its UTC offset before and from its one transition instant.
Zone(transition, before, after) ==
    [transition |-> transition, before |-> before, after |-> after]

\* UTC, and a zone that set its clocks back by an hour three days ago.
UtcZone == Zone(0, 0, 0)
FallBackZone == Zone(TEST_START_MILLIS - 3 * DayMillis, 0 - 4 * HourMillis, 0 - 5 * HourMillis)

\* The two, and: a zone that set its clocks forward three days ago; a zone
\* that sets them back during the run; a zone that set them forward seven
\* days ago, within a millisecond of the run's first instant.
TimeZones ==
    { UtcZone,
      FallBackZone,
      Zone(TEST_START_MILLIS - 3 * DayMillis, 0 - 5 * HourMillis, 0 - 4 * HourMillis),
      Zone(TEST_START_MILLIS + 1, 0 - 4 * HourMillis, 0 - 5 * HourMillis),
      Zone(TEST_START_MILLIS + 1 - SevenDaysMillis, 0 - 5 * HourMillis, 0 - 4 * HourMillis) }

UtcOffset(zone, u) == IF u < zone.transition THEN zone.before ELSE zone.after

\* time.localtime(u): the wall-clock reading of instant u.
Local(zone, u) == u + UtcOffset(zone, u)

Max(a, b) == IF a >= b THEN a ELSE b
Min(a, b) == IF a <= b THEN a ELSE b

\* A naive datetime: its wall-clock reading and its fold.
Naive(wall, fold) == [wall |-> wall, fold |-> fold]

\* datetime.now(): the local reading of the instant; fold is 1 for the second
\* occurrence of a reading the zone repeats.
DatetimeNow(zone, u) ==
    LET wall == Local(zone, u)
        probe1 == Local(zone, u - MaxFoldMillis)
        trans == wall - probe1 - MaxFoldMillis
    IN Naive(wall, IF trans < 0 /\ Local(zone, u + trans) = wall THEN 1 ELSE 0)

\* dt - timedelta: wall-clock arithmetic, the result's fold is 0.
MinusDelta(dt, delta) == Naive(dt.wall - delta, 0)

\* get_millis_from_date_time: int(dt.timestamp() * 1000) of a naive datetime,
\* the instant u with Local(u) = dt.wall as datetime._mktime finds it.
get_millis_from_date_time(zone, dt) ==
    LET t == dt.wall
        a == Local(zone, t) - t
        u1 == t - a
        t1 == Local(zone, u1)
        probe == IF dt.fold = 1 THEN u1 + MaxFoldMillis ELSE u1 - MaxFoldMillis
        b == IF t1 = t THEN Local(zone, probe) - probe ELSE t1 - u1
        u2 == t - b
        t2 == Local(zone, u2)
    IN IF t1 = t /\ a = b THEN u1
       ELSE IF t2 = t THEN u2
       ELSE IF t1 = t THEN u1
       ELSE IF dt.fold = 1 THEN Min(u1, u2) ELSE Max(u1, u2)

\* get_current_millis
get_current_millis(zone, u) == get_millis_from_date_time(zone, DatetimeNow(zone, u))

(***************************************************************************)
(* The two mappers: create_ransomware_incident and                         *)
(* get_ransomware_alert_details.                                           *)
(***************************************************************************)

\* get_date_time_from_millis: datetime.fromtimestamp, a naive local datetime.
get_date_time_from_millis(zone, time_in_millis) == DatetimeNow(zone, time_in_millis)

\* strftime(DATE_FORMAT): the wall-clock reading cut to the second, 'Z' appended.
Strftime(dt) == [seconds |-> dt.wall \div 1000, suffix |-> "Z"]

\* The occurrence time: latestTimestampUsecs / 1000 as local time, and the local
\* reading of the Unix epoch (before the model's time range) when it is absent.
OccurrenceTime(zone, alert) ==
    IF "latestTimestampUsecs" \in DOMAIN alert
    THEN Strftime(get_date_time_from_millis(zone, alert.latestTimestampUsecs \div 1000))
    ELSE [unix_epoch |-> 0, utcoffset |-> zone.before, suffix |-> "Z"]

KeyError(k) == [type |-> "KeyError", msg |-> "", arg |-> k]

\* The KeyError of the first subscript alert['alertDocument'][k], k taken from
\* keys in the order the mapper reads them, that fails; None when all succeed.
RECURSIVE DocumentError(_, _, _)
DocumentError(alert, keys, i) ==
    IF i > Len(keys) THEN None
    ELSE IF "alertDocument" \notin DOMAIN alert THEN Some(KeyError("alertDocument"))
    ELSE IF keys[i] \notin DOMAIN alert.alertDocument THEN Some(KeyError(keys[i]))
    ELSE DocumentError(alert, keys, i + 1)

\* create_ransomware_incident: the incident, or the KeyError it raises.
IncidentError(alert) ==
    DocumentError(alert, << "alertName", "alertDescription", "alertCause" >>, 1)

create_ransomware_incident(zone, alert) ==
    LET property_dict == _get_property_dict(alert.propertyList) IN
    [ name |-> alert.alertDocument.alertName,
      type |-> "Cohesity-Helios-Ransomware-Incident",
      event_id |-> alert.id,
      occurred |-> OccurrenceTime(zone, alert),
      alert_description |-> alert.alertDocument.alertDescription,
      alert_cause |-> alert.alertDocument.alertCause,
      anomalous_object |-> Get(property_dict, "object", "None"),
      environment |-> Get(property_dict, "environment", "None"),
      anomaly_strength |-> Get(property_dict, "anomalyStrength", "None"),
      rawJSON |-> alert,
      severity |-> convert_to_demisto_severity_int(alert.severity) ]

\* get_ransomware_alert_details: the details, or the KeyError it raises.
DetailsError(alert) == DocumentError(alert, << "alertDescription", "alertCause" >>, 1)

get_ransomware_alert_details(zone, alert) ==
    LET property_dict == _get_property_dict(alert.propertyList) IN
    [ alert_id |-> alert.id,
      occurrence_time |-> OccurrenceTime(zone, alert),
      severity |-> alert.severity,
      alert_description |-> alert.alertDocument.alertDescription,
      alert_cause |-> alert.alertDocument.alertCause,
      anomalous_object_name |-> Get(property_dict, "object", "None"),
      anomalous_object_env |-> Get(property_dict, "environment", "None"),
      anomaly_strength |-> Get(property_dict, "anomalyStrength", "None") ]

\* The outcome of a mapping loop: the list built, or the exception that ended it.
Mapped(out) == [error |-> None, out |-> out]
\* The loop left by the exception e, its list holding what was appended so far.
MapFailed(e, out) == [error |-> e, out |-> out]

\* fetch_incidents_command: the loop that maps the alerts to incidents.
RECURSIVE IncidentsLoop(_, _, _, _)
IncidentsLoop(zone, resp, i, out) ==
    IF i > Len(resp) THEN Mapped(out)
    ELSE IF IncidentError(resp[i]) # None THEN MapFailed(IncidentError(resp[i]), out)
    ELSE IncidentsLoop(zone, resp, i + 1,
                       Append(out, create_ransomware_incident(zone, resp[i])))

\* get_ransomware_alerts_command: the loop that maps the alerts to details.
RECURSIVE DetailsLoop(_, _, _, _)
DetailsLoop(zone, resp, i, out) ==
    IF i > Len(resp) THEN Mapped(out)
    ELSE IF DetailsError(resp[i]) # None THEN MapFailed(DetailsError(resp[i]), out)
    ELSE DetailsLoop(zone, resp, i + 1,
                     Append(out, get_ransomware_alert_details(zone, resp[i])))

(***************************************************************************)
(* Client.get_ransomware_alerts                                            *)
(***************************************************************************)

\* int(millis) * 1000, kept as the product it is (it exceeds 32 bits).
Times1000(millis) == [millis |-> millis, times |-> 1000]

\* request_params.  Each "is not []" test compares with a fresh list and is
\* always true, so the five list filters are always set, alertStateList
\* included.
BuildRequestParams(start, end, max_fetch, alert_ids, alert_state_list, alert_severity_list, region_ids, cluster_ids) ==
    [ maxAlerts |-> max_fetch,
      alertCategoryList |-> "kSecurity",
      _includeTenantInfo |-> TRUE,
      startDateUsecs |-> IF start # None THEN Some(Times1000(start[1])) ELSE None,
      endDateUsecs |-> IF end # None THEN Some(Times1000(end[1])) ELSE None,
      alertIdList |-> alert_ids,
      alertStateList |-> alert_state_list,
      alertSeverityList |-> alert_severity_list,
      region_ids |-> region_ids,
      clusterIdentifiers |-> cluster_ids ]

\* KeepAlert with the test on alertCode left out.
KeepAlertAny(alert) == "alertCode" \in DOMAIN alert

\* The filter loop over resp.
KeepAlert(alert) == alert.alertCode = RANSOMWARE_CODE

RECURSIVE FilterLoop(_, _, _)
FilterLoop(resp, i, ransomware_alerts) ==
    IF i > Len(resp) THEN ransomware_alerts
    ELSE FilterLoop(resp, i + 1,
            IF KeepAlert(resp[i]) THEN Append(ransomware_alerts, resp[i])
            ELSE ransomware_alerts)

FilterRansomware(resp) == FilterLoop(resp, 1, << >>)

(***************************************************************************)
(* The matchers of ignore_ransomware_anomaly_command and                   *)
(* restore_latest_clean_snapshot.                                          *)
(***************************************************************************)

\* ignore: the first alert whose 'object' property is object_name; '' if none.
RECURSIVE IgnoreLoop(_, _, _)
IgnoreLoop(resp, object_name, i) ==
    IF i > Len(resp) THEN ""
    ELSE IF Get(_get_property_dict(resp[i].propertyList), "object", "") = object_name
         THEN resp[i].id
         ELSE IgnoreLoop(resp, object_name, i + 1)

\* IgnoreMatch without the break: the last match wins.
RECURSIVE IgnoreLoopNoBreak(_, _, _, _)
IgnoreLoopNoBreak(resp, object_name, i, found) ==
    IF i > Len(resp) THEN found
    ELSE IgnoreLoopNoBreak(resp, object_name, i + 1,
            IF Get(_get_property_dict(resp[i].propertyList), "object", "") = object_name
            THEN resp[i].id ELSE found)

IgnoreMatchLast(resp, object_name) == IgnoreLoopNoBreak(resp, object_name, 1, "")

IgnoreMatch(resp, object_name) == IgnoreLoop(resp, object_name, 1)

\* restore: restore_properties is overwritten by every kCritical kOpen alert
\* scanned; the loop stops at the first of them whose 'object' is object_name.
\* RestoreCandidate with the test on alertState left out.
RestoreCandidateAnyState(alert) == alert.severity = "kCritical"

RestoreCandidate(alert) == alert.severity = "kCritical" /\ alert.alertState = "kOpen"

RECURSIVE RestoreLoop(_, _, _, _)
RestoreLoop(resp, object_name, i, props) ==
    IF i > Len(resp) THEN [alert_id |-> "", restore_properties |-> props]
    ELSE IF RestoreCandidate(resp[i])
         THEN LET p2 == _get_property_dict(resp[i].propertyList) IN
              IF Get(p2, "object", "") = object_name
              THEN [alert_id |-> resp[i].id, restore_properties |-> p2]
              ELSE RestoreLoop(resp, object_name, i + 1, p2)
         ELSE RestoreLoop(resp, object_name, i + 1, props)

RestoreMatch(resp, object_name) == RestoreLoop(resp, object_name, 1, EmptyDict)

\* Exceptions.
Exception(t, m, a) == [type |-> t, msg |-> m, arg |-> a]

\* The ValueError of both commands (their texts differ in punctuation only).
NotFound(object_name) ==
    Exception("ValueError", "CohesityHelios error: no anomalous object found by the given name",
              object_name)

\* The keys the payload reads, in evaluation order, and whether int() is applied.
PayloadReads ==
    << <<"object", FALSE>>, <<"jobId", TRUE>>, <<"jobInstanceId", TRUE>>,
       <<"jobStartTimeUsecs", TRUE>>, <<"object", FALSE>>, <<"entityId", TRUE>>,
       <<"cid", FALSE>> >>

\* The first exception building request_payload and cluster_id raises, or None.
RECURSIVE PayloadError(_, _)
PayloadError(props, i) ==
    IF i > Len(PayloadReads) THEN None
    ELSE LET k == PayloadReads[i][1] IN
         IF k \notin DOMAIN props THEN Some(Exception("KeyError", "", k))
         ELSE IF PayloadReads[i][2] /\ IntOf(props[k]) = None
              THEN Some(Exception("ValueError", "invalid literal for int()", props[k]))
              ELSE PayloadError(props, i + 1)

\* request_payload and the clusterid header.
BuildPayload(props, now) ==
    [ cluster_id |-> props["cid"],
      name |-> << "Cortex_XSOAR_triggered_restore_task_", props["object"] >>,
      type |-> "kRecoverVMs",
      vmwareParameters |-> [poweredOn |-> TRUE, prefix |-> "Recover-",
                            suffix |-> << "-VM-", now >>],
      objects |-> << [ jobId |-> IntOf(props["jobId"])[1],
                       jobRunId |-> IntOf(props["jobInstanceId"])[1],
                       startedTimeUsecs |-> IntOf(props["jobStartTimeUsecs"])[1],
                       sourceName |-> props["object"],
                       protectionSourceId |-> IntOf(props["entityId"])[1] ] >> ]

(***************************************************************************)
(* The state machine.                                                      *)
(***************************************************************************)

DefaultArgs ==
    [ object_name |-> "", created_after |-> "", created_before |-> "",
      alert_severity_list |-> << >>, alert_id_list |-> << >>,
      limit |-> MAX_FETCH_DEFAULT ]

\* demisto.args() of the two object commands and of get-ransomware-alerts.
ObjectArgs == { [DefaultArgs EXCEPT !.object_name = n] : n \in ObjectNames }

AlertArgs ==
    { DefaultArgs,
      [DefaultArgs EXCEPT !.created_after = "2021-09-12T18:30:00Z"],
      [DefaultArgs EXCEPT !.created_before = "2021-09-12T18:30:00Z",
                          !.alert_severity_list = << "kCritical" >>],
      [DefaultArgs EXCEPT !.created_after = "yesterday-ish",
                          !.alert_id_list = << "a2" >>, !.limit = 1] }

ArgsOf(c) ==
    CASE c = "cohesity-helios-ignore-anomalous-object" -> ObjectArgs
      [] c = "cohesity-helios-restore-latest-clean-snapshot" -> ObjectArgs
      [] c = "cohesity-helios-get-ransomware-alerts" -> AlertArgs
      [] OTHER -> {DefaultArgs}

\* demisto.params() of the instance: url and apikey set; url missing; max_fetch
\* set to a number, set to text that is no number.
BaseParams == ("apikey" :> "k") @@ ("url" :> "https://helios")

ParamSets ==
    { BaseParams,
      ("apikey" :> "k"),
      BaseParams @@ ("max_fetch" :> "50"),
      BaseParams @@ ("max_fetch" :> "all") }

\* The parameters of an instance that leaves max_fetch unset.
PlainParams == { prm \in ParamSets : "max_fetch" \notin DOMAIN prm }

\* max_fetch is read by fetch-incidents only.
ParamsOf(c) == IF c = "fetch-incidents" THEN ParamSets ELSE PlainParams

\* The messages a failed HTTP call carries (DemistoException).
HttpErrors == {"Forbidden", "Authorization", "ConnectionError"}

StateChanging == {"suppress", "restore", "resolve"}

Call(op, id, ok) == [op |-> op, id |-> id, ok |-> ok]

Issued(q) == { i \in 1..Len(log[q]) : log[q][i].op \in StateChanging }

NoCycle == [status |-> "none", start |-> 0, end |-> 0, hadMark |-> FALSE]

Init ==
    /\ tz \in TimeZones
    /\ params = [p \in Procs |-> BaseParams]
    /\ clock = TEST_START_MILLIS
    /\ lastRun = [k \in {} |-> 0]
    /\ svcAlerts \in AlertLists
    /\ pc = [p \in Procs |-> "idle"]
    /\ command = [p \in Procs |-> ""]
    /\ args = [p \in Procs |-> DefaultArgs]
    /\ last_run = [p \in Procs |-> [k \in {} |-> 0]]
    /\ start_time_millis = [p \in Procs |-> None]
    /\ end_time_millis = [p \in Procs |-> None]
    /\ request_params = [p \in Procs |-> None]
    /\ http_resp = [p \in Procs |-> << >>]
    /\ ransomware_resp = [p \in Procs |-> << >>]
    /\ alert_id = [p \in Procs |-> ""]
    /\ restore_properties = [p \in Procs |-> EmptyDict]
    /\ request_payload = [p \in Procs |-> None]
    /\ incidents = [p \in Procs |-> << >>]
    /\ log = [p \in Procs |-> << >>]
    /\ exc = [p \in Procs |-> None]
    /\ raised = [p \in Procs |-> << >>]
    /\ ret = [p \in Procs |-> None]
    /\ result = [p \in Procs |-> None]
    /\ entryClock = [p \in Procs |-> TEST_START_MILLIS]
    /\ fetchSaw = [p \in Procs |-> {}]
    /\ prevCycle = NoCycle

\* The clock advances by one millisecond.
Tick(ticks) ==
    /\ clock < TEST_START_MILLIS + ticks
    /\ clock' = clock + 1
    /\ UNCHANGED << tz, params, lastRun, svcAlerts, pc, command, args, last_run, start_time_millis,
                    end_time_millis, request_params, http_resp, ransomware_resp,
                    alert_id, restore_properties, request_payload, incidents, log,
                    exc, raised, ret, result, entryClock, fetchSaw, prevCycle >>

\* The dispatch on demisto.command(); with no branch taken main() ends.
EntryPoint(c) ==
    CASE c = "test-module" -> "tm_get"
      [] c = "cohesity-helios-get-ransomware-alerts" -> "ga_get"
      [] c = "cohesity-helios-ignore-anomalous-object" -> "ig_get"
      [] c = "cohesity-helios-restore-latest-clean-snapshot" -> "rs_get"
      [] c = "fetch-incidents" -> "fi_lastrun"
      [] OTHER -> "done"

\* main() up to the dispatch on demisto.command(): a new invocation.
\* params['url'] is read before the try: with no url the KeyError leaves
\* main() uncaught and the invocation ends there.
Invoke(p, c, a, prm) ==
    /\ pc[p] \in {"idle", "done", "crashed"}
    /\ params' = [params EXCEPT ![p] = prm]
    /\ IF "url" \in DOMAIN prm
       THEN /\ pc' = [pc EXCEPT ![p] = EntryPoint(c)]
            /\ exc' = [exc EXCEPT ![p] = None]
       ELSE /\ pc' = [pc EXCEPT ![p] = "crashed"]
            /\ exc' = [exc EXCEPT ![p] = Some(Exception("KeyError", "", "url"))]
    /\ command' = [command EXCEPT ![p] = c]
    /\ args' = [args EXCEPT ![p] = a]
    /\ last_run' = [last_run EXCEPT ![p] = [k \in {} |-> 0]]
    /\ start_time_millis' = [start_time_millis EXCEPT ![p] = None]
    /\ end_time_millis' = [end_time_millis EXCEPT ![p] = None]
    /\ request_params' = [request_params EXCEPT ![p] = None]
    /\ http_resp' = [http_resp EXCEPT ![p] = << >>]
    /\ ransomware_resp' = [ransomware_resp EXCEPT ![p] = << >>]
    /\ alert_id' = [alert_id EXCEPT ![p] = ""]
    /\ restore_properties' = [restore_properties EXCEPT ![p] = EmptyDict]
    /\ request_payload' = [request_payload EXCEPT ![p] = None]
    /\ incidents' = [incidents EXCEPT ![p] = << >>]
    /\ log' = [log EXCEPT ![p] = << >>]
    /\ raised' = [raised EXCEPT ![p] = << >>]
    /\ ret' = [ret EXCEPT ![p] = None]
    /\ result' = [result EXCEPT ![p] = None]
    /\ entryClock' = [entryClock EXCEPT ![p] = clock]
    /\ fetchSaw' = [fetchSaw EXCEPT ![p] = {}]
    /\ UNCHANGED << tz, clock, lastRun, svcAlerts, prevCycle >>

\* An exception leaves the command function for main's except clause.
Raise(p, e) ==
    /\ exc' = [exc EXCEPT ![p] = Some(e)]
    /\ raised' = [raised EXCEPT ![p] = Append(@, e)]
    /\ pc' = [pc EXCEPT ![p] = "except"]

\* Client.get_ransomware_alerts, the request answered: resp is what the
\* service holds, the return value is resp filtered.
GetAnswered(p, sent) ==
    /\ request_params' = [request_params EXCEPT ![p] = Some(sent)]
    /\ http_resp' = [http_resp EXCEPT ![p] = svcAlerts]
    /\ ransomware_resp' = [ransomware_resp EXCEPT ![p] = FilterRansomware(svcAlerts)]
    /\ log' = [log EXCEPT ![p] = Append(@, Call("get", "", TRUE))]
    /\ fetchSaw' = [fetchSaw EXCEPT ![p] = { q \in Procs : Issued(q) # {} }]

\* Client.get_ransomware_alerts, the request failed after its retries.
GetFailed(p, sent, m) ==
    /\ request_params' = [request_params EXCEPT ![p] = Some(sent)]
    /\ log' = [log EXCEPT ![p] = Append(@, Call("get", "", FALSE))]
    /\ UNCHANGED << http_resp, ransomware_resp, fetchSaw >>

DefaultParams ==
    BuildRequestParams(None, None, MAX_FETCH_DEFAULT, << >>, << >>, << >>, << >>, << >>)

Text(t, a, o) == [text |-> t, arg |-> a, outputs |-> o]

HttpError(m, op) == Exception("DemistoException", m, op)

\* IsAuthorizationError with the second marker left out.
IsAuthorizationErrorForbiddenOnly(e) == e.msg = "Forbidden"

\* test_module: 'Forbidden' in str(e) or 'Authorization' in str(e)
IsAuthorizationError(e) == e.msg \in {"Forbidden", "Authorization"}

\* The service applies PATCH /mcm/alerts/<id> {"status": status}.
PatchAlert(alerts, id, status) ==
    [ i \in 1..Len(alerts) |->
        IF alerts[i].id = id THEN [alerts[i] EXCEPT !.alertState = status]
        ELSE alerts[i] ]

(***************************************************************************)
(* test_module                                                             *)
(***************************************************************************)
TmGet(p) ==
    /\ pc[p] = "tm_get"
    /\ LET sent == BuildRequestParams(Some(TEST_START_MILLIS), None, MAX_FETCH_DEFAULT,
                                        << >>, << >>, << >>, << >>, << >>) IN
       \/ /\ GetAnswered(p, sent)
          /\ ret' = [ret EXCEPT ![p] = Some(Text("ok", "", << >>))]
          /\ pc' = [pc EXCEPT ![p] = "return"]
          /\ UNCHANGED << exc, raised >>
       \/ \E m \in HttpErrors :
            /\ GetFailed(p, sent, m)
            /\ IF IsAuthorizationError(HttpError(m, "get"))
               THEN /\ ret' = [ret EXCEPT ![p] = Some(Text(
                              "Authorization Error: make sure API Key is correctly set",
                              "", << >>))]
                    /\ raised' = [raised EXCEPT ![p] = Append(@, HttpError(m, "get"))]
                    /\ pc' = [pc EXCEPT ![p] = "return"]
                    /\ UNCHANGED exc
               ELSE /\ Raise(p, HttpError(m, "get"))
                    /\ UNCHANGED ret
    /\ UNCHANGED << tz, params, clock, lastRun, svcAlerts, command, args, last_run, start_time_millis,
                    end_time_millis, alert_id, restore_properties, request_payload,
                    incidents, result, entryClock, prevCycle >>

(***************************************************************************)
(* get_ransomware_alerts_command                                           *)
(***************************************************************************)
GaGet(p) ==
    /\ pc[p] = "ga_get"
    /\ LET start == datestring_to_millis(args[p].created_after)
           end == datestring_to_millis(args[p].created_before)
           sent == BuildRequestParams(start, end, args[p].limit, args[p].alert_id_list,
                                        << >>, args[p].alert_severity_list, << >>, << >>) IN
       /\ start_time_millis' = [start_time_millis EXCEPT ![p] = start]
       /\ end_time_millis' = [end_time_millis EXCEPT ![p] = end]
       /\ \/ /\ GetAnswered(p, sent)
             /\ LET m == DetailsLoop(tz, FilterRansomware(svcAlerts), 1, << >>) IN
                IF m.error = None
                THEN /\ ret' = [ret EXCEPT ![p] =
                           Some(Text("CohesityHelios.RansomwareAlert", "alert_id", m.out))]
                     /\ pc' = [pc EXCEPT ![p] = "return"]
                     /\ UNCHANGED << exc, raised >>
                ELSE /\ Raise(p, m.error[1])
                     /\ UNCHANGED ret
          \/ \E m \in HttpErrors :
               /\ GetFailed(p, sent, m)
               /\ Raise(p, HttpError(m, "get"))
               /\ UNCHANGED ret
    /\ UNCHANGED << tz, params, clock, lastRun, svcAlerts, command, args, last_run, alert_id,
                    restore_properties, request_payload, incidents, result, entryClock,
                    prevCycle >>

(***************************************************************************)
(* ignore_ransomware_anomaly_command                                       *)
(***************************************************************************)
IgGet(p) ==
    /\ pc[p] = "ig_get"
    /\ \/ /\ GetAnswered(p, DefaultParams)
          /\ LET id == IgnoreMatch(FilterRansomware(svcAlerts), args[p].object_name) IN
             /\ alert_id' = [alert_id EXCEPT ![p] = id]
             /\ IF id = ""
                THEN Raise(p, NotFound(args[p].object_name))
                ELSE /\ pc' = [pc EXCEPT ![p] = "ig_suppress"]
                     /\ UNCHANGED << exc, raised >>
       \/ \E m \in HttpErrors :
            /\ GetFailed(p, DefaultParams, m)
            /\ Raise(p, HttpError(m, "get"))
            /\ UNCHANGED alert_id
    /\ UNCHANGED << tz, params, clock, lastRun, svcAlerts, command, args, last_run, start_time_millis,
                    end_time_millis, restore_properties, request_payload, incidents,
                    ret, result, entryClock, prevCycle >>

\* IgSuppress fenced: not issued once another invocation has called for the alert.
IgSuppressFenced(p) ==
    /\ pc[p] = "ig_suppress"
    /\ \A q \in Procs \ {p} : \A i \in Issued(q) : log[q][i].id # alert_id[p]
    /\ \/ /\ svcAlerts' = PatchAlert(svcAlerts, alert_id[p], "kSuppressed")
          /\ log' = [log EXCEPT ![p] = Append(@, Call("suppress", alert_id[p], TRUE))]
          /\ ret' = [ret EXCEPT ![p] = Some(Text("Ignored object", args[p].object_name, << >>))]
          /\ pc' = [pc EXCEPT ![p] = "return"]
          /\ UNCHANGED << exc, raised >>
       \/ \E m \in HttpErrors :
            /\ log' = [log EXCEPT ![p] = Append(@, Call("suppress", alert_id[p], FALSE))]
            /\ Raise(p, HttpError(m, "suppress"))
            /\ UNCHANGED << svcAlerts, ret >>
    /\ UNCHANGED << tz, params, clock, lastRun, command, args, last_run, start_time_millis,
                    end_time_millis, request_params, http_resp, ransomware_resp, alert_id,
                    restore_properties, request_payload, incidents, result, entryClock,
                    fetchSaw, prevCycle >>

IgSuppress(p) ==
    /\ pc[p] = "ig_suppress"
    /\ \/ /\ svcAlerts' = PatchAlert(svcAlerts, alert_id[p], "kSuppressed")
          /\ log' = [log EXCEPT ![p] = Append(@, Call("suppress", alert_id[p], TRUE))]
          /\ ret' = [ret EXCEPT ![p] = Some(Text("Ignored object", args[p].object_name, << >>))]
          /\ pc' = [pc EXCEPT ![p] = "return"]
          /\ UNCHANGED << exc, raised >>
       \/ \E m \in HttpErrors :
            /\ log' = [log EXCEPT ![p] = Append(@, Call("suppress", alert_id[p], FALSE))]
            /\ Raise(p, HttpError(m, "suppress"))
            /\ UNCHANGED << svcAlerts, ret >>
    /\ UNCHANGED << tz, params, clock, lastRun, command, args, last_run, start_time_millis,
                    end_time_millis, request_params, http_resp, ransomware_resp, alert_id,
                    restore_properties, request_payload, incidents, result, entryClock,
                    fetchSaw, prevCycle >>

(***************************************************************************)
(* restore_latest_clean_snapshot                                           *)
(***************************************************************************)
RsGet(p) ==
    /\ pc[p] = "rs_get"
    /\ \/ /\ GetAnswered(p, DefaultParams)
          /\ LET m == RestoreMatch(FilterRansomware(svcAlerts), args[p].object_name)
                 perr == PayloadError(m.restore_properties, 1) IN
             /\ alert_id' = [alert_id EXCEPT ![p] = m.alert_id]
             /\ restore_properties' = [restore_properties EXCEPT ![p] = m.restore_properties]
             /\ IF m.alert_id = ""
                THEN /\ Raise(p, NotFound(args[p].object_name))
                     /\ UNCHANGED request_payload
                ELSE IF perr # None
                THEN /\ Raise(p, perr[1])
                     /\ UNCHANGED request_payload
                ELSE /\ request_payload' = [request_payload EXCEPT ![p] =
                            Some(BuildPayload(m.restore_properties, get_current_millis(tz, clock)))]
                     /\ pc' = [pc EXCEPT ![p] = "rs_restore"]
                     /\ UNCHANGED << exc, raised >>
       \/ \E m \in HttpErrors :
            /\ GetFailed(p, DefaultParams, m)
            /\ Raise(p, HttpError(m, "get"))
            /\ UNCHANGED << alert_id, restore_properties, request_payload >>
    /\ UNCHANGED << tz, params, clock, lastRun, svcAlerts, command, args, last_run, start_time_millis,
                    end_time_millis, incidents, ret, result, entryClock, prevCycle >>

\* RsRestore going on to the resolve call when the restore call failed.
RsRestoreThenResolveAnyway(p) ==
    /\ pc[p] = "rs_restore"
    /\ \/ log' = [log EXCEPT ![p] = Append(@, Call("restore", alert_id[p], TRUE))]
       \/ log' = [log EXCEPT ![p] = Append(@, Call("restore", alert_id[p], FALSE))]
    /\ pc' = [pc EXCEPT ![p] = "rs_resolve"]
    /\ UNCHANGED << tz, params, clock, lastRun, svcAlerts, command, args, last_run, start_time_millis,
                    end_time_millis, request_params, http_resp, ransomware_resp, alert_id,
                    restore_properties, request_payload, incidents, exc, raised, ret,
                    result, entryClock, fetchSaw, prevCycle >>

RsRestore(p) ==
    /\ pc[p] = "rs_restore"
    /\ \/ /\ log' = [log EXCEPT ![p] = Append(@, Call("restore", alert_id[p], TRUE))]
          /\ pc' = [pc EXCEPT ![p] = "rs_resolve"]
          /\ UNCHANGED << exc, raised >>
       \/ \E m \in HttpErrors :
            /\ log' = [log EXCEPT ![p] = Append(@, Call("restore", alert_id[p], FALSE))]
            /\ Raise(p, HttpError(m, "restore"))
    /\ UNCHANGED << tz, params, clock, lastRun, svcAlerts, command, args, last_run, start_time_millis,
                    end_time_millis, request_params, http_resp, ransomware_resp, alert_id,
                    restore_properties, request_payload, incidents, ret, result,
                    entryClock, fetchSaw, prevCycle >>

RsResolve(p) ==
    /\ pc[p] = "rs_resolve"
    /\ \/ /\ svcAlerts' = PatchAlert(svcAlerts, alert_id[p], "kResolved")
          /\ log' = [log EXCEPT ![p] = Append(@, Call("resolve", alert_id[p], TRUE))]
          /\ ret' = [ret EXCEPT ![p] = Some(Text("Restored object", args[p].object_name, << >>))]
          /\ pc' = [pc EXCEPT ![p] = "return"]
          /\ UNCHANGED << exc, raised >>
       \/ \E m \in HttpErrors :
            /\ log' = [log EXCEPT ![p] = Append(@, Call("resolve", alert_id[p], FALSE))]
            /\ Raise(p, HttpError(m, "resolve"))
            /\ UNCHANGED << svcAlerts, ret >>
    /\ UNCHANGED << tz, params, clock, lastRun, command, args, last_run, start_time_millis,
                    end_time_millis, request_params, http_resp, ransomware_resp, alert_id,
                    restore_properties, request_payload, incidents, result, entryClock,
                    fetchSaw, prevCycle >>

(***************************************************************************)
(* fetch_incidents_command                                                 *)
(***************************************************************************)

\* datetime.now() - timedelta(days=7), as epoch milliseconds.
SevenDaysAgo(zone, now) ==
    get_millis_from_date_time(zone, MinusDelta(DatetimeNow(zone, now), SevenDaysMillis))

\* WindowStart with the stored watermark ignored.
WindowStartNoWatermark(lr, zone, now) == SevenDaysAgo(zone, now)

\* params.get('max_fetch')
ParamMaxFetch(prm) == IF "max_fetch" \in DOMAIN prm THEN Some(prm["max_fetch"]) ELSE None

DigitStrings == ("1" :> 1) @@ ("20" :> 20) @@ ("50" :> 50)

\* int(max_fetch) if max_fetch is set and max_fetch.isdigit(), else the default.
MaxFetch(max_fetch) ==
    IF max_fetch # None /\ max_fetch[1] \in DOMAIN DigitStrings
    THEN DigitStrings[max_fetch[1]]
    ELSE MAX_FETCH_DEFAULT

\* start_time_millis: the stored watermark, else seven days before the local now.
WindowStart(lr, zone, now) ==
    IF DOMAIN lr # {} /\ "start_time" \in DOMAIN lr
    THEN lr["start_time"]
    ELSE SevenDaysAgo(zone, now)

\* The dict given to demisto.setLastRun.
NewLastRun(start, end) == [start_time |-> end]

\* How a cycle that ended in main's handler failed: at the GET, in the mapping
\* loop, at setLastRun or at the push.
FailedAt(p) ==
    IF log[p][1] = Call("get", "", FALSE) THEN "fetch_failed"
    ELSE IF \A i \in 1..Len(log[p]) : log[p][i].op # "setLastRun" THEN "map_failed"
    ELSE IF \E i \in 1..Len(log[p]) : log[p][i] = Call("setLastRun", "", FALSE)
         THEN "store_failed"
    ELSE "push_failed"

CycleRecord(p, status) ==
    [ status |-> status, start |-> start_time_millis[p][1], end |-> end_time_millis[p][1],
      hadMark |-> "start_time" \in DOMAIN last_run[p] ]

FiLastRun(p) ==
    /\ pc[p] = "fi_lastrun"
    /\ last_run' = [last_run EXCEPT ![p] = lastRun]
    /\ pc' = [pc EXCEPT ![p] = "fi_start"]
    /\ UNCHANGED << tz, params, clock, lastRun, svcAlerts, command, args, start_time_millis,
                    end_time_millis, request_params, http_resp, ransomware_resp, alert_id,
                    restore_properties, request_payload, incidents, log, exc, raised, ret,
                    result, entryClock, fetchSaw, prevCycle >>

FiStart(p) ==
    /\ pc[p] = "fi_start"
    /\ start_time_millis' = [start_time_millis EXCEPT ![p] = Some(WindowStart(last_run[p], tz, clock))]
    /\ pc' = [pc EXCEPT ![p] = "fi_end"]
    /\ UNCHANGED << tz, params, clock, lastRun, svcAlerts, command, args, last_run, end_time_millis,
                    request_params, http_resp, ransomware_resp, alert_id,
                    restore_properties, request_payload, incidents, log, exc, raised, ret,
                    result, entryClock, fetchSaw, prevCycle >>

FiEnd(p) ==
    /\ pc[p] = "fi_end"
    /\ end_time_millis' = [end_time_millis EXCEPT ![p] = Some(get_current_millis(tz, clock))]
    /\ pc' = [pc EXCEPT ![p] = "fi_get"]
    /\ UNCHANGED << tz, params, clock, lastRun, svcAlerts, command, args, last_run, start_time_millis,
                    request_params, http_resp, ransomware_resp, alert_id,
                    restore_properties, request_payload, incidents, log, exc, raised, ret,
                    result, entryClock, fetchSaw, prevCycle >>

FiGet(p) ==
    /\ pc[p] = "fi_get"
    /\ LET sent == BuildRequestParams(start_time_millis[p], end_time_millis[p],
                                        MaxFetch(ParamMaxFetch(params[p])), << >>, << >>, << >>, << >>, << >>) IN
       \/ /\ GetAnswered(p, sent)
          /\ LET m == IncidentsLoop(tz, FilterRansomware(svcAlerts), 1, << >>) IN
             IF m.error = None
             THEN /\ incidents' = [incidents EXCEPT ![p] = m.out]
                  /\ pc' = [pc EXCEPT ![p] = "fi_set"]
                  /\ UNCHANGED << exc, raised >>
             ELSE /\ incidents' = [incidents EXCEPT ![p] = m.out]
                  /\ Raise(p, m.error[1])
       \/ \E m \in HttpErrors :
            /\ GetFailed(p, sent, m)
            /\ Raise(p, HttpError(m, "get"))
            /\ UNCHANGED incidents
    /\ UNCHANGED << tz, params, clock, lastRun, svcAlerts, command, args, last_run, start_time_millis,
                    end_time_millis, alert_id, restore_properties, request_payload, ret,
                    result, entryClock, prevCycle >>

\* FiSetLastRun advancing the watermark only when an alert was found.
FiSetLastRunIfAny(p) ==
    /\ pc[p] = "fi_set"
    /\ \/ /\ lastRun' = IF incidents[p] # << >>
                        THEN [start_time |-> end_time_millis[p][1]]
                        ELSE lastRun
          /\ log' = [log EXCEPT ![p] = Append(@, Call("setLastRun", "", TRUE))]
          /\ pc' = [pc EXCEPT ![p] = "fi_push"]
          /\ UNCHANGED << exc, raised >>
       \/ /\ log' = [log EXCEPT ![p] = Append(@, Call("setLastRun", "", FALSE))]
          /\ Raise(p, Exception("Exception", "setLastRun", ""))
          /\ UNCHANGED lastRun
    /\ UNCHANGED << tz, params, clock, svcAlerts, command, args, last_run, start_time_millis,
                    end_time_millis, request_params, http_resp, ransomware_resp, alert_id,
                    restore_properties, request_payload, incidents, ret,
                    result, entryClock, fetchSaw, prevCycle >>

\* demisto.setLastRun({'start_time': end_time_millis}): stored by the host, or
\* it raises.
FiSetLastRun(p) ==
    /\ pc[p] = "fi_set"
    /\ \/ /\ lastRun' = NewLastRun(start_time_millis[p][1], end_time_millis[p][1])
          /\ log' = [log EXCEPT ![p] = Append(@, Call("setLastRun", "", TRUE))]
          /\ pc' = [pc EXCEPT ![p] = "fi_push"]
          /\ UNCHANGED << exc, raised >>
       \/ /\ log' = [log EXCEPT ![p] = Append(@, Call("setLastRun", "", FALSE))]
          /\ Raise(p, Exception("Exception", "setLastRun", ""))
          /\ UNCHANGED lastRun
    /\ UNCHANGED << tz, params, clock, svcAlerts, command, args, last_run, start_time_millis,
                    end_time_millis, request_params, http_resp, ransomware_resp, alert_id,
                    restore_properties, request_payload, incidents, ret,
                    result, entryClock, fetchSaw, prevCycle >>

\* demisto.incidents(incidents): accepted by the host, or it raises.
FiPush(p) ==
    /\ pc[p] = "fi_push"
    /\ \/ /\ log' = [log EXCEPT ![p] = Append(@, Call("incidents", "", TRUE))]
          /\ result' = [result EXCEPT ![p] =
                Some([kind |-> "incidents", command |-> command[p], error |-> None])]
          /\ pc' = [pc EXCEPT ![p] = "done"]
          /\ prevCycle' = CycleRecord(p, "ok")
          /\ UNCHANGED << exc, raised >>
       \/ /\ log' = [log EXCEPT ![p] = Append(@, Call("incidents", "", FALSE))]
          /\ Raise(p, Exception("Exception", "incidents", ""))
          /\ UNCHANGED << result, prevCycle >>
    /\ UNCHANGED << tz, params, clock, lastRun, svcAlerts, command, args, last_run, start_time_millis,
                    end_time_millis, request_params, http_resp, ransomware_resp, alert_id,
                    restore_properties, request_payload, incidents, ret, entryClock,
                    fetchSaw >>

(***************************************************************************)
(* main: return_results of the command's value, and the except clause.     *)
(***************************************************************************)
Return(p) ==
    /\ pc[p] = "return"
    /\ log' = [log EXCEPT ![p] = Append(@, Call("results", "", TRUE))]
    /\ result' = [result EXCEPT ![p] =
          Some([kind |-> "results", command |-> command[p], error |-> None])]
    /\ pc' = [pc EXCEPT ![p] = "done"]
    /\ UNCHANGED << tz, params, clock, lastRun, svcAlerts, command, args, last_run, start_time_millis,
                    end_time_millis, request_params, http_resp, ransomware_resp, alert_id,
                    restore_properties, request_payload, incidents, exc, raised, ret,
                    entryClock, fetchSaw, prevCycle >>

\* return_error(f'Failed to execute {demisto.command()} command.\nError:\n{str(e)}')
ReturnError(p) ==
    /\ pc[p] = "except"
    /\ log' = [log EXCEPT ![p] = Append(@, Call("error", "", TRUE))]
    /\ result' = [result EXCEPT ![p] =
          Some([kind |-> "Failed to execute", command |-> command[p], error |-> exc[p]])]
    /\ pc' = [pc EXCEPT ![p] = "done"]
    /\ prevCycle' = IF command[p] = "fetch-incidents"
                    THEN CycleRecord(p, FailedAt(p))
                    ELSE prevCycle
    /\ UNCHANGED << tz, params, clock, lastRun, svcAlerts, command, args, last_run, start_time_millis,
                    end_time_millis, request_params, http_resp, ransomware_resp, alert_id,
                    restore_properties, request_payload, incidents, exc, raised, ret,
                    entryClock, fetchSaw >>

(***************************************************************************)
(* Specifications.                                                         *)
(***************************************************************************)

\* The first invocation of a process.
InvokeOnce(p, c, a, prm) == pc[p] = "idle" /\ Invoke(p, c, a, prm)

\* One run of the integration: main() executes one command.
Next ==
    \/ Tick(MaxRunTicks)
    \/ \E c \in Commands \cup OtherCommands :
          \E a \in ArgsOf(c) : \E prm \in ParamsOf(c) : InvokeOnce(1, c, a, prm)
    \/ TmGet(1)
    \/ GaGet(1)
    \/ IgGet(1)
    \/ IgSuppress(1)
    \/ RsGet(1)
    \/ RsRestore(1)
    \/ RsResolve(1)
    \/ FiLastRun(1)
    \/ FiStart(1)
    \/ FiEnd(1)
    \/ FiGet(1)
    \/ FiSetLastRun(1)
    \/ FiPush(1)
    \/ Return(1)
    \/ ReturnError(1)

\* A single run is made in UTC or in the zone that set its clocks back.
InitRun == Init /\ tz \in {UtcZone, FallBackZone}

Spec == InitRun /\ [][Next]_vars

\* The fetch-incidents runs of the host, one cycle after another, under a
\* clock that never goes back.
InitFetch == Init /\ Len(svcAlerts) <= MaxCycleAlerts

NextFetch ==
    \/ Tick(MaxTicks)
    \/ \E prm \in PlainParams : Invoke(1, "fetch-incidents", DefaultArgs, prm)
    \/ FiLastRun(1)
    \/ FiStart(1)
    \/ FiEnd(1)
    \/ FiGet(1)
    \/ FiSetLastRun(1)
    \/ FiPush(1)
    \/ ReturnError(1)

SpecFetch == InitFetch /\ [][NextFetch]_vars

\* Two operators each run one ignore or restore command at the same time.
ObjectCommands == { "cohesity-helios-ignore-anomalous-object",
                    "cohesity-helios-restore-latest-clean-snapshot" }

NextConc ==
    \E p \in Procs :
        \/ \E c \in ObjectCommands :
              \E a \in ObjectArgs : \E prm \in ParamsOf(c) : InvokeOnce(p, c, a, prm)
        \/ IgGet(p)
        \/ IgSuppress(p)
        \/ RsGet(p)
        \/ RsRestore(p)
        \/ RsResolve(p)
        \/ Return(p)
        \/ ReturnError(p)

InitConc == InitRun /\ Len(svcAlerts) <= MaxConcAlerts

SpecConc == InitConc /\ [][NextConc]_vars

(***************************************************************************)
(* Properties.                                                             *)
(***************************************************************************)

HasCall(p, op) == \E i \in 1..Len(log[p]) : log[p][i].op = op

\* The GET of invocation p has been answered.
Fetched(p) == Len(log[p]) >= 1 /\ log[p][1] = Call("get", "", TRUE)

\* p runs a fetch-incidents cycle whose window is computed and which has not ended.
InCycle(p) ==
    /\ command[p] = "fetch-incidents"
    /\ pc[p] \in {"fi_get", "fi_set", "fi_push", "except"}

WinStart(p) == start_time_millis[p][1]
WinEnd(p) == end_time_millis[p][1]

\* The window of a cycle that found no watermark is [now - 7 days, now], each
\* "now" an instant of the cycle and 7 days 7 x 24 hours.
LookbackWindow(p) ==
    /\ entryClock[p] <= WinStart(p) + SevenDaysMillis
    /\ WinStart(p) + SevenDaysMillis <= WinEnd(p)
    /\ WinEnd(p) <= clock

\* The window the GET asked the service for.
WindowSent(p) ==
    request_params[p] # None =>
        /\ request_params[p][1].startDateUsecs = Some([millis |-> WinStart(p), times |-> 1000])
        /\ request_params[p][1].endDateUsecs = Some([millis |-> WinEnd(p), times |-> 1000])

\* A cycle that follows a successful cycle starts its window at that cycle's
\* window end and ends it no earlier: no gap, no overlap.
ChainsAfterSuccess(p) ==
    prevCycle.status = "ok" =>
        /\ WinStart(p) = prevCycle.end
        /\ WinStart(p) <= WinEnd(p)
        /\ WinEnd(p) <= clock

\* C1: over successful fetch-incidents cycles run one after another under a
\* clock that never goes back, the first cycle (no stored watermark) fetches
\* [now - 7 days, now], and every cycle that follows a successful cycle starts
\* its window at that cycle's window end and ends it no earlier, so the windows
\* leave no gap and do not overlap.
C1_WindowsChain ==
    InCycle(1) =>
        /\ WindowSent(1)
        /\ prevCycle.status = "none" =>
              /\ "start_time" \notin DOMAIN last_run[1]
              /\ LookbackWindow(1)
        /\ ChainsAfterSuccess(1)

\* A cycle whose GET failed has ended: nothing stored, nothing pushed.
FailedFetchKeepsState ==
    (command[1] = "fetch-incidents" /\ pc[1] = "done" /\ log[1][1] = Call("get", "", FALSE)) =>
        /\ lastRun = last_run[1]
        /\ ~HasCall(1, "setLastRun")
        /\ ~HasCall(1, "incidents")
        /\ prevCycle.status = "fetch_failed"

\* C2 as stated: after a cycle whose alert fetch failed, the watermark is
\* unchanged, no incidents were pushed, and the next cycle's window starts at
\* the failed cycle's start and covers the failed window.
C2_Original ==
    /\ FailedFetchKeepsState
    /\ (InCycle(1) /\ prevCycle.status = "fetch_failed") =>
          /\ WinStart(1) = prevCycle.start
          /\ WinEnd(1) >= prevCycle.end

\* C2 amended: after a cycle whose alert fetch failed, the watermark is
\* unchanged and no incidents were pushed; if a watermark was stored the next
\* cycle's window starts at the failed cycle's start and covers the failed
\* window; if none was stored the watermark is still absent and the next
\* cycle computes its start anew from its own clock: in a zone whose UTC
\* offset never changes that is its own now - 7 days, not earlier than the
\* failed start.
C2_FailedFetchRedelivery ==
    /\ FailedFetchKeepsState
    /\ (InCycle(1) /\ prevCycle.status = "fetch_failed") =>
          /\ WinEnd(1) >= prevCycle.end
          /\ IF prevCycle.hadMark
             THEN WinStart(1) = prevCycle.start
             ELSE /\ "start_time" \notin DOMAIN last_run[1]
                  /\ tz.before = tz.after =>
                        /\ LookbackWindow(1)
                        /\ WinStart(1) >= prevCycle.start

\* The cycle after a failed fetch, a watermark stored, the clock advanced.
C2_Witness ==
    /\ InCycle(1)
    /\ pc[1] = "fi_get"
    /\ prevCycle.status = "fetch_failed"
    /\ prevCycle.hadMark
    /\ prevCycle.end < WinEnd(1)

\* C3 as stated: in fetch-incidents, once the alert fetch has returned the
\* watermark is set to the window end before the incidents are pushed, alerts
\* found or not; a failed push does not roll it back, and the next cycle
\* starts at that end.
C3_Original ==
    /\ (command[1] = "fetch-incidents" /\ Fetched(1)) =>
          /\ pc[1] # "fi_set" => lastRun = [start_time |-> WinEnd(1)]
          /\ \A j \in 1..Len(log[1]) :
                log[1][j].op = "incidents" =>
                    \E i \in 1..(j - 1) : log[1][i].op = "setLastRun"
    /\ (InCycle(1) /\ prevCycle.status = "push_failed") =>
          WinStart(1) = prevCycle.end

\* Every fetched alert of p carries the alertDocument entries an incident reads.
AllMappable(p) ==
    \A i \in 1..Len(ransomware_resp[p]) :
        /\ "alertDocument" \in DOMAIN ransomware_resp[p][i]
        /\ {"alertName", "alertDescription", "alertCause"}
               \subseteq DOMAIN ransomware_resp[p][i].alertDocument

\* The host stored the watermark p gave it.
Stored(p) == \E i \in 1..Len(log[p]) : log[p][i] = Call("setLastRun", "", TRUE)

\* C3 amended: in fetch-incidents, once the alert fetch has returned and every
\* fetched alert has been mapped to an incident, setLastRun is called with the
\* window end before the incidents are pushed, alerts found or not; once the
\* host has stored it the watermark is that end, a failed push does not roll
\* it back, and the next cycle starts at that end.  When mapping an alert
\* raises (an alert without alertDocument or one of its entries) or
\* setLastRun raises, the cycle ends in the 'Failed to execute' error with the
\* watermark unchanged and nothing pushed, and the next cycle starts where a
\* stored watermark says, as after a failed fetch.
C3_WatermarkBeforePush ==
    /\ (command[1] = "fetch-incidents" /\ Fetched(1)) =>
          /\ IF AllMappable(1)
             THEN /\ pc[1] \in {"fi_set", "fi_push", "except", "done"}
                  /\ pc[1] = "fi_set" <=> ~HasCall(1, "setLastRun")
                  /\ IF Stored(1)
                     THEN lastRun = [start_time |-> WinEnd(1)]
                     ELSE /\ lastRun = last_run[1]
                          /\ ~HasCall(1, "incidents")
                          /\ pc[1] # "fi_set" => exc[1] # None /\ exc[1][1].msg = "setLastRun"
             ELSE /\ pc[1] \in {"except", "done"}
                  /\ exc[1] # None /\ exc[1][1].type = "KeyError"
                  /\ ~HasCall(1, "setLastRun")
                  /\ ~HasCall(1, "incidents")
                  /\ lastRun = last_run[1]
          /\ pc[1] = "done" /\ ~(Stored(1) /\ exc[1] = None) =>
                /\ result[1][1].kind = "Failed to execute"
                /\ result[1][1].error = exc[1]
          /\ \A j \in 1..Len(log[1]) :
                log[1][j].op = "incidents" =>
                    \E i \in 1..(j - 1) : log[1][i] = Call("setLastRun", "", TRUE)
    /\ (InCycle(1) /\ prevCycle.status = "push_failed") =>
          WinStart(1) = prevCycle.end
    /\ (InCycle(1) /\ prevCycle.status \in {"map_failed", "store_failed"} /\ prevCycle.hadMark) =>
          WinStart(1) = prevCycle.start

\* The push of a cycle that found no alert failed; the next cycle has its window.
C3_Witness ==
    /\ InCycle(1)
    /\ prevCycle.status = "push_failed"
    /\ prevCycle.start < prevCycle.end
    /\ svcAlerts = << >>
    /\ WinStart(1) = prevCycle.end
    /\ lastRun = [start_time |-> prevCycle.end]

Ignoring(p) == command[p] = "cohesity-helios-ignore-anomalous-object"
Restoring(p) == command[p] = "cohesity-helios-restore-latest-clean-snapshot"

\* The alert's flattened 'object' property is the name.
HasObject(alert, name) ==
    LET d == _get_property_dict(alert.propertyList) IN
    "object" \in DOMAIN d /\ d["object"] = name

\* The positions of the fetched list that qualify as a match for p's command.
IgnoreMatches(p) ==
    { i \in 1..Len(ransomware_resp[p]) : HasObject(ransomware_resp[p][i], args[p].object_name) }

RestoreMatches(p) ==
    { i \in IgnoreMatches(p) :
        /\ ransomware_resp[p][i].severity = "kCritical"
        /\ ransomware_resp[p][i].alertState = "kOpen" }

First(S) == CHOOSE i \in S : \A j \in S : i <= j

\* The state-changing calls of invocation p, in order.
Changes(p) == SelectSeq(log[p], LAMBDA c : c.op \in {"suppress", "restore", "resolve"})

\* C4: when no fetched alert qualifies as a match for the requested object
\* name, ignore and restore each fail with the not-found error naming that
\* object and issue no suppress, restore or resolve call.
C4_NoMatchNotFound ==
    ((Ignoring(1) /\ Fetched(1) /\ IgnoreMatches(1) = {})
        \/ (Restoring(1) /\ Fetched(1) /\ RestoreMatches(1) = {})) =>
        /\ pc[1] \in {"except", "done"}
        /\ Changes(1) = << >>
        /\ exc[1] # None
        /\ exc[1][1].type = "ValueError"
        /\ exc[1][1].msg = "CohesityHelios error: no anomalous object found by the given name"
        /\ exc[1][1].arg = args[1].object_name
        /\ pc[1] = "done" =>
              /\ result[1][1].kind = "Failed to execute"
              /\ result[1][1].error = exc[1]

C6_RestoreThenResolve ==
    Restoring(1) =>
        /\ \A j \in 1..Len(log[1]) :
              log[1][j].op = "resolve" =>
                  \E i \in 1..(j - 1) : log[1][i] = Call("restore", log[1][j].id, TRUE)
        /\ (\E i \in 1..Len(log[1]) : log[1][i].op = "restore" /\ ~log[1][i].ok) =>
              /\ ~HasCall(1, "resolve")
              /\ pc[1] \in {"except", "done"}
              /\ exc[1] # None /\ exc[1][1].arg = "restore"
        /\ (\E i \in 1..Len(log[1]) : log[1][i].op = "resolve" /\ ~log[1][i].ok) =>
              /\ pc[1] \in {"except", "done"}
              /\ exc[1] # None /\ exc[1][1].arg = "resolve"
              /\ pc[1] = "done" =>
                    /\ result[1][1].kind = "Failed to execute"
                    /\ result[1][1].error = exc[1]
              /\ \A k \in 1..Len(svcAlerts) :
                    svcAlerts[k].id = alert_id[1] => svcAlerts[k].alertState = "kOpen"

\* A restore has ended on a failed resolve call.
C6_Witness ==
    /\ Restoring(1)
    /\ pc[1] = "done"
    /\ Len(Changes(1)) = 2
    /\ Changes(1)[1] = Call("restore", alert_id[1], TRUE)
    /\ Changes(1)[2] = Call("resolve", alert_id[1], FALSE)

\* C7: whenever restore issues a restore or resolve call, the alert acted on
\* is the first fetched alert that is kCritical, kOpen and carries the
\* requested name; the payload and the cluster id come from that alert's
\* properties and every call carries that alert's id.
C7_RestoreActsOnFirstOpenCritical ==
    (Restoring(1) /\ Changes(1) # << >>) =>
        /\ RestoreMatches(1) # {}
        /\ LET a == ransomware_resp[1][First(RestoreMatches(1))]
               d == _get_property_dict(a.propertyList)
               sent == request_payload[1][1] IN
           /\ a.severity = "kCritical" /\ a.alertState = "kOpen"
           /\ \A i \in 1..Len(Changes(1)) :
                 Changes(1)[i].op \in {"restore", "resolve"} /\ Changes(1)[i].id = a.id
           /\ request_payload[1] # None
           /\ sent.cluster_id = d["cid"]
           /\ sent.objects =
                 << [ jobId |-> IntTable[d["jobId"]],
                      jobRunId |-> IntTable[d["jobInstanceId"]],
                      startedTimeUsecs |-> IntTable[d["jobStartTimeUsecs"]],
                      sourceName |-> d["object"],
                      protectionSourceId |-> IntTable[d["entityId"]] ] >>

\* A restore resolved the second fetched alert, the first carrying the same
\* name without being kCritical and kOpen.
C7_Witness ==
    /\ Restoring(1)
    /\ pc[1] = "done"
    /\ Len(ransomware_resp[1]) = 2
    /\ 1 \in IgnoreMatches(1)
    /\ RestoreMatches(1) = {2}
    /\ Changes(1) = << Call("restore", ransomware_resp[1][2].id, TRUE),
                       Call("resolve", ransomware_resp[1][2].id, TRUE) >>

\* C8: the list the transport client returns holds exactly the alerts of the
\* service response whose alertCode is 'CE01516011', in response order, so
\* every incident and every matched alert carries that code.
C8_OnlyRansomwareCode ==
    Fetched(1) =>
        /\ ransomware_resp[1] =
              SelectSeq(http_resp[1], LAMBDA a : a.alertCode = "CE01516011")
        /\ \A i \in 1..Len(incidents[1]) :
              incidents[1][i].rawJSON.alertCode = "CE01516011"
        /\ Len(incidents[1]) <= Len(ransomware_resp[1])
        /\ \A i \in 1..Len(incidents[1]) :
              incidents[1][i].rawJSON = ransomware_resp[1][i]
        /\ AllMappable(1) => Len(incidents[1]) \in {0, Len(ransomware_resp[1])}
        /\ ~AllMappable(1) => Len(incidents[1]) < Len(ransomware_resp[1])
        /\ alert_id[1] # "" =>
              \E i \in 1..Len(http_resp[1]) :
                  /\ http_resp[1][i].id = alert_id[1]
                  /\ http_resp[1][i].alertCode = "CE01516011"
        /\ (command[1] = "cohesity-helios-get-ransomware-alerts" /\ ret[1] # None) =>
              Len(ret[1][1].outputs) = Len(ransomware_resp[1])

\* A filtered get-ransomware-alerts call dropped an alert of another code and
\* kept a ransomware alert.
C8_Witness ==
    /\ command[1] = "cohesity-helios-get-ransomware-alerts"
    /\ Fetched(1)
    /\ request_params[1][1].alertSeverityList # << >>
    /\ Len(http_resp[1]) = 2
    /\ http_resp[1][1].alertCode # "CE01516011"
    /\ Len(ransomware_resp[1]) = 1

\* The state-changing call p is about to issue is answered with success.
SuppressSucceeds(p) == IgSuppress(p) /\ pc'[p] = "return"
RestoreSucceeds(p) == RsRestore(p) /\ pc'[p] = "rs_resolve"
ResolveSucceeds(p) == RsResolve(p) /\ pc'[p] = "return"

\* C9: nothing fences two concurrent ignore / restore invocations: an
\* invocation that has matched an alert can always issue its state-changing
\* calls and have them accepted, whatever another invocation has already done
\* to that alert, so both can fetch, match the same alert id and act on it.
C9_NoFence ==
    \A p \in Procs :
        /\ pc[p] = "ig_suppress" => ENABLED SuppressSucceeds(p)
        /\ pc[p] = "rs_restore" => ENABLED RestoreSucceeds(p)
        /\ pc[p] = "rs_resolve" => ENABLED ResolveSucceeds(p)

\* Two restores for one object name both fetched before either issued a call,
\* matched the same alert, and both had their restore submission accepted and
\* issued their resolve call.
C9_Witness ==
    /\ Restoring(1) /\ Restoring(2)
    /\ args[1].object_name = args[2].object_name
    /\ Fetched(1) /\ Fetched(2)
    /\ fetchSaw[1] = {} /\ fetchSaw[2] = {}
    /\ alert_id[1] # "" /\ alert_id[1] = alert_id[2]
    /\ \A p \in Procs :
          /\ pc[p] = "done"
          /\ Len(Changes(p)) = 2
          /\ Changes(p)[1] = Call("restore", alert_id[1], TRUE)
          /\ Changes(p)[2].op = "resolve"

\* The terminal reports of invocation p: return_results, return_error, or the
\* incidents handed to the host by fetch-incidents.
Reports(p) ==
    { i \in 1..Len(log[p]) :
        \/ log[p][i].op \in {"results", "error"}
        \/ log[p][i].op = "incidents" /\ log[p][i].ok }

\* The invocation is over: main() returned, or an exception left it uncaught.
Ended(p) == pc[p] \in {"done", "crashed"}

\* Exactly one report, made by the step that ends the invocation.
OneReport(p) ==
    /\ ~Ended(p) => Reports(p) = {} /\ result[p] = None
    /\ Ended(p) => Reports(p) = {Len(log[p])} /\ result[p] # None

\* The invocation was given parameters without 'url': main() was left by an
\* uncaught KeyError before any command ran, nothing called, nothing reported.
EndedWithoutUrl(p) ==
    /\ pc[p] = "crashed"
    /\ log[p] = << >>
    /\ result[p] = None
    /\ raised[p] = << >>
    /\ exc[p] = Some(Exception("KeyError", "", "url"))

\* A fault of p reached main's handler and was reported as 'Failed to execute'.
ReportedAsFailure(p) ==
    /\ result[p][1].kind = "Failed to execute"
    /\ result[p][1].command = command[p]
    /\ result[p][1].error = Some(raised[p][1])
    /\ log[p][Len(log[p])].op = "error"

ReportedAsSuccess(p) ==
    /\ result[p][1].kind = IF command[p] = "fetch-incidents" THEN "incidents" ELSE "results"
    /\ result[p][1].error = None

\* C10 as stated: every invocation ends in exactly one report, a success or a
\* terminal error, and any fault raised inside the command is reported by the
\* top-level handler as a 'Failed to execute' error.
C10_Original ==
    command[1] \in Commands =>
        /\ OneReport(1)
        /\ pc[1] = "done" =>
              IF raised[1] # << >> THEN ReportedAsFailure(1) ELSE ReportedAsSuccess(1)

\* C10 amended: an invocation of one of the five commands whose parameters
\* hold 'url' ends in exactly one report, a success or a terminal error; a
\* fault raised inside the command is reported by the top-level handler as
\* 'Failed to execute', except a fault of the connectivity test's fetch whose
\* text holds 'Forbidden' or 'Authorization': test_module catches it and
\* returns 'Authorization Error: ...' as the result.  With no 'url' in the
\* parameters the invocation ends on an uncaught KeyError, before the handler
\* and before any command, with no report.
C10_OneOutcome ==
    command[1] \in Commands =>
        IF "url" \notin DOMAIN params[1]
        THEN EndedWithoutUrl(1)
        ELSE /\ pc[1] # "crashed"
             /\ OneReport(1)
             /\ pc[1] = "done" =>
                   IF raised[1] = << >> THEN ReportedAsSuccess(1)
                   ELSE IF /\ command[1] = "test-module"
                           /\ raised[1][1].msg \in {"Forbidden", "Authorization"}
                   THEN /\ ReportedAsSuccess(1)
                        /\ ret[1][1].text =
                              "Authorization Error: make sure API Key is correctly set"
                   ELSE ReportedAsFailure(1)

\* A connectivity test whose fetch failed on authorization ended with a result.
C10_Witness ==
    /\ command[1] = "test-module"
    /\ pc[1] = "done"
    /\ raised[1] # << >>
    /\ raised[1][1].msg = "Authorization"
    /\ result[1][1].kind = "results"

====
